---- MODULE Spec2Model ----
(***************************************************************************)
(* Order aggregation engine of paddy-cap.                                  *)
(*                                                                         *)
(*   - the Orderspace (token-auth) client: accessToken / tokenExpiry and   *)
(*     makeRequest -> addAuth -> ensureValidToken -> getAccessToken        *)
(*   - the WooCommerce (key-auth) client's list call                       *)
(*   - handleGetOrders: two goroutines, a WaitGroup, a Mutex, sort.Slice   *)
(*   - handleGetOrder: the single-order lookup                             *)
(*   - the normalizer: ConvertOrderspaceOrder, ConvertWooOrder and         *)
(*     FormatCurrency, called one at a time                                *)
(*                                                                         *)
(* Instants are Unix seconds.  Local computation takes no time; the clock  *)
(* advances while a network round trip is in flight and while the server   *)
(* is idle.                                                                *)
(***************************************************************************)
EXTENDS Integers, Sequences, FiniteSets, TLC

VARIABLES
    now,            \* time.Now()
    accessToken,    \* Client.accessToken
    tokenExpiry,    \* Client.tokenExpiry
    tokIssue,       \* history: instant and expires_in of the last acquisition
    reqPc,          \* position inside Client.makeRequest
    reqCaller,      \* who called makeRequest
    reqKind,        \* "list" (GET orders) or "get" (GET orders/<id>)
    reqRet,         \* what makeRequest returned
    trace,          \* history: round trips of the current makeRequest call
    checkState,     \* history: state of the cached token when the call checked it
    checkedAt,      \* history: instant of that check
    sent,           \* history: the data request the call sent (instant, bearer)
    tokenAccess,    \* history: who has read or written accessToken/tokenExpiry
    tokenTrips,     \* history: token round trips since construction
    calls,          \* history: makeRequest calls since construction
    hPc,            \* position of the handleGetOrders handler goroutine
    taskPc,         \* position of each wg.Go goroutine
    res,            \* res, err of each goroutine
    transformed,    \* transformed slice of each goroutine
    idx,            \* loop index of each goroutine's append loop
    loaded,         \* slice header each goroutine read for its append
    orders,         \* the shared accumulator
    mu,             \* holder of sync.Mutex, "" when unlocked
    inCS,           \* history: goroutines between mu.Lock() and mu.Unlock()
    wg,             \* sync.WaitGroup counter
    response,       \* what the handler wrote to the ResponseWriter
    logs,           \* what was logged during the current invocation
    crashed,        \* the process died of an unrecovered panic
    invocations,    \* handler invocations started so far
    lPc,            \* position of the handleGetOrder handler
    lOrigin,        \* r.PathValue("origin")
    lOrderID,       \* r.PathValue("id")
    lErr,           \* history: err of the lookup's GetOrder call, "" when nil
    fnPc,           \* the function a direct call is in, "idle" between calls
    fnIn,           \* its argument
    fnStart,        \* the instant the call started
    fnOut,          \* its result
    requests,       \* history: the list requests each goroutine has issued
    lastData,       \* history: error and status of the latest data request
    mwPc,           \* the layer of the handler chain an HTTP request is in
    mwReq,          \* that request: method and path
    mwRid,          \* r.Context().Value(ridKey), "" when not set
    mwSeen,         \* history: the layers the request has entered
    mwStatus,       \* status written to the ResponseWriter, 0 when none
    mwLogged,       \* request_id the Logging layer logs with, "" when it
                    \* has not read one
    ovPc,           \* position of each of two overlapping makeRequest calls
    ovSaw,          \* what each of them read: token state found, expires_in
                    \* of its token response, bearer it sent
    ovRace          \* history: a token field was written while the other
                    \* call was running

clientVars == <<accessToken, tokenExpiry, tokIssue>>
callVars == <<reqPc, reqCaller, reqKind, reqRet, trace, checkState, checkedAt,
              sent, tokenAccess, tokenTrips, calls>>
taskVars == <<taskPc, res, transformed, idx, loaded, orders, mu, inCS, wg>>
handlerVars == <<hPc, response, logs, crashed, invocations>>
lookupVars == <<lPc, lOrigin, lOrderID, lErr>>
fnVars == <<fnPc, fnIn, fnStart, fnOut>>
reqVars == <<requests, lastData>>
mwVars == <<mwPc, mwReq, mwRid, mwSeen, mwStatus, mwLogged>>
ovVars == <<ovPc, ovSaw, ovRace>>
vars == <<now, clientVars, callVars, taskVars, handlerVars, lookupVars, fnVars, reqVars, mwVars, ovVars>>

----------------------------------------------------------------------------
(* Bounds *)

MaxOrders == 2          \* orders in one page returned by a source
MaxInvocations == 2     \* handler invocations in one behaviour
MaxTicks == 4           \* clock advances in one behaviour

----------------------------------------------------------------------------
(* Constants of the program *)

SafetyMargin == 30      \* seconds subtracted from expires_in
StatusOK == 200
StatusBadRequest == 400
StatusInternalServerError == 500
PageSize == 10          \* GetLast10Orders

Orderspace == "Orderspace"
WooCommerce == "WooCommerce"
Tasks == {Orderspace, WooCommerce}

----------------------------------------------------------------------------
(* Time *)

UnixDay(d) == 1704067200 + (d - 1) * 86400     \* 2024-01-<d>T00:00:00Z
StartTime == UnixDay(4)
TickStep == 20
ZeroTime == 0 - 1                               \* time.Time{} : before every instant

ExpiresInValues == {0, 70}                      \* expires_in of a token response

\* time.Time.After
After(a, b) == a > b

----------------------------------------------------------------------------
(* Orderspace client: token cache (service/orderspace/client.go) *)

\* a constructor that starts with a token it never acquired
NewClientPreloaded == [accessToken |-> "tok", tokenExpiry |-> StartTime + 70]

\* NewClient: no token, zero expiry, no round trip
NewClient == [accessToken |-> "", tokenExpiry |-> ZeroTime]

\* Outcomes of the POST to the token endpoint, as getAccessToken sees them
TokenOutcomes ==
    {[kind |-> k, access_token |-> "", expires_in |-> 0] :
        k \in {"transport", "unreadable", "non200", "unparseable"}}
    \cup {[kind |-> "ok", access_token |-> "tok", expires_in |-> e] :
        e \in ExpiresInValues}
    \cup {[kind |-> "ok", access_token |-> "", expires_in |-> 0]}   \* 200 with {}

\* getAccessToken: nil exactly when the body was read, the status is 200
\* and the body unmarshals into TokenResponse
getAccessTokenErr(o) ==
    CASE o.kind = "transport" -> "failed to get access token"
      [] o.kind = "unreadable" -> "failed to read token response"
      [] o.kind = "non200" -> "token request failed with status"
      [] o.kind = "unparseable" -> "failed to parse token response"
      [] OTHER -> ""

\* the expiry without the safety margin
NewTokenExpiryNoMargin(t, expiresIn) == t + expiresIn

\* c.tokenExpiry = time.Now().Add(time.Duration(tokenResp.ExpiresIn-30) * time.Second)
NewTokenExpiry(t, expiresIn) == t + (expiresIn - SafetyMargin)

\* a check that asks for a token on every request
NeedsTokenAlways(tok, expiry, t) == TRUE

\* a check that forgets the expiry
NeedsTokenAbsentOnly(tok, expiry, t) == tok = ""

\* ensureValidToken: c.accessToken == "" || time.Now().After(c.tokenExpiry)
NeedsToken(tok, expiry, t) == tok = "" \/ After(t, expiry)

----------------------------------------------------------------------------
(* Raw orders and response bodies of the two sources *)

OsIDs == <<"os1", "os2", "os3", "os4", "os5", "os6", "os7", "os8", "os9", "os10">>
OrderspaceCreated == {"2024-01-01T00:00:00Z", "2024-01-03T00:00:00Z"}
WooCreated == {"2024-01-02T00:00:00", "2024-01-03T00:00:00"}

\* float64 amounts, written in thousandths: 12500 is 12.5
Amounts == {0, 12500, 12345, 1999}
Currencies == {"USD", "usd", "GBP", "EUR", "XYZ", ""}

\* orderspace.Order (orderspace/orders.go:11), the fields the normalizer reads
OrderspaceOrder(id, created, company, contact, email, delivery, gross, currency) ==
    [ID |-> id, Number |-> 1001, Created |-> created, Status |-> "new",
     CompanyName |-> company,
     EmailAddresses |-> [Orders |-> email],
     BillingAddress |-> [ContactName |-> contact],
     DeliveryDate |-> delivery, Currency |-> currency, GrossTotal |-> gross]

\* woocommerce.Order (middleware/middleware.go:197), the fields the
\* normalizer reads
WooOrder(id, created, first, last, company, email, total, currency) ==
    [ID |-> id, DateCreated |-> created, Status |-> "on-hold",
     Billing |-> [FirstName |-> first, LastName |-> last, Company |-> company,
                  Email |-> email],
     Total |-> total, Currency |-> currency]

\* the orders a page of the order list carries: they differ in id and date
OrderspacePages ==
    UNION {{[i \in 1..n |->
                OrderspaceOrder(OsIDs[i], f[i], "Acme", "", "", "", 12500, "USD")] :
                f \in [1..n -> OrderspaceCreated]} : n \in 0..MaxOrders}

WooPages ==
    UNION {{[i \in 1..n |->
                WooOrder(i, f[i], "Ann", "Lee", "", "", "12.50", "USD")] :
                f \in [1..n -> WooCreated]} : n \in 0..MaxOrders}

\* raw orders handed to the normalizer one at a time
OrderspaceRawOrders ==
    {OrderspaceOrder("os1", c, co, ct, em, dd, g, cur) :
        c \in {"2024-01-01T00:00:00Z", "2024-01-02T00:00:00", "not-a-date",
               "0001-01-01T00:00:00Z"},
        co \in {"", "Acme"}, ct \in {"", "Ann Lee"}, em \in {"", "ann@example.com"},
        dd \in {"", "2024-01-05", "next week"},
        g \in {12500}, cur \in {"GBP", "XYZ"}}

WooRawOrders ==
    {WooOrder(1, c, fn, ln, co, em, tot, cur) :
        c \in {"2024-01-02T00:00:00", "2024-01-02T00:00:00Z", "",
               "0001-01-01T00:00:00"},
        fn \in {"", "Ann"}, ln \in {"", "Lee"}, co \in {"", "Acme"},
        em \in {"", "ann@example.com"},
        tot \in {"12.50", "abc"}, cur \in {"USD", "xyz"}}

NoBody == [shape |-> "empty", page |-> <<>>]

\* Bodies of a response with status below 400
OkBodies(pages) ==
    {[shape |-> sh, page |-> <<>>] : sh \in {"empty", "invalid", "object", "scalar"}}
    \cup {[shape |-> sh, page |-> pg] : sh \in {"array", "wrapped"}, pg \in pages}

\* statuses a source answers with besides 200: two errors, and Not Modified
ErrorStatuses == {401, StatusInternalServerError}
OtherStatuses == {304}

\* Outcomes of HTTPClient.Do + io.ReadAll for GET orders/<id>; a 304 is not
\* a redirect, the transport hands it to the caller
GetOutcomes ==
    {[kind |-> "transport", status |-> 0, body |-> NoBody]}
    \cup {[kind |-> "unreadable", status |-> st, body |-> NoBody] :
            st \in {StatusOK, StatusInternalServerError}}
    \cup {[kind |-> "http", status |-> st, body |-> [shape |-> sh, page |-> <<>>]] :
            st \in ErrorStatuses, sh \in {"object", "text", "empty"}}
    \cup {[kind |-> "http", status |-> st, body |-> [shape |-> sh, page |-> <<>>]] :
            st \in OtherStatuses, sh \in {"empty", "object"}}
    \cup {[kind |-> "http", status |-> StatusOK, body |-> b] : b \in OkBodies({})}

\* a page as long as the limit of GetLast10Orders
FullPage ==
    [i \in 1..PageSize |->
        OrderspaceOrder(OsIDs[i], "2024-01-03T00:00:00Z", "Acme", "", "", "", 12500, "USD")]

\* Outcomes of HTTPClient.Do + io.ReadAll for GET orders
ListOutcomes ==
    {[kind |-> "transport", status |-> 0, body |-> NoBody]}
    \cup {[kind |-> "http", status |-> StatusInternalServerError,
            body |-> [shape |-> "object", page |-> <<>>]]}
    \cup {[kind |-> "http", status |-> StatusOK, body |-> b] :
            b \in {x \in OkBodies(OrderspacePages) : x.shape # "invalid"}}

\* Outcomes of GET orders when the source has ten orders or more to give:
\* an error, a page of one order, and the full page
PagingOutcomes ==
    {[kind |-> "http", status |-> StatusInternalServerError,
      body |-> [shape |-> "object", page |-> <<>>]]}
    \cup {[kind |-> "http", status |-> StatusOK,
            body |-> [shape |-> sh, page |-> SubSeq(FullPage, 1, 1)]] :
            sh \in {"array", "wrapped"}}
    \cup {[kind |-> "http", status |-> StatusOK,
            body |-> [shape |-> "array", page |-> FullPage]]}

\* the zero PaginationInfo
NoPagination == [Limit |-> 0, StartingAfter |-> "", HasMore |-> FALSE]

NilResponse == [isNil |-> TRUE, Data |-> NoBody, Pagination |-> NoPagination]

\* RequestOptions of GET orders/<id>: nil
NoOptions == [isNil |-> TRUE, Limit |-> 0, StartingAfter |-> "", Params |-> {}]

\* RequestOptions that ListOrders builds from OrderListOptions without
\* filters: Limit and StartingAfter, no parameters
ListOptions(limit, startingAfter) ==
    [isNil |-> FALSE, Limit |-> limit, StartingAfter |-> startingAfter,
     Params |-> {}]

\* a recent-orders call that asks for twice the page
OrderspaceLast20Options == ListOptions(PageSize + PageSize, "")

\* Orderspace GetLast10Orders -> GetAllOrders(10, "") -> ListOrders
OrderspaceLast10Options == ListOptions(PageSize, "")

\* WooCommerce GetLast10Orders -> GetLastOrders(10) -> ListOrders: the
\* RequestOptions handed to GET
WooLastOrdersOptions(count) ==
    [isNil |-> FALSE, Page |-> 1, PerPage |-> count, Offset |-> 0,
     Params |-> {<<"orderby", "date">>, <<"order", "desc">>}]

\* the options of the call makeRequest is serving
RequestOptionsOf(kind) ==
    IF kind = "list" THEN OrderspaceLast10Options ELSE NoOptions

\* response.Pagination: filled in only when a limit was asked for and the
\* body is a JSON array
PaginationOf(body, options) ==
    IF ~options.isNil /\ options.Limit > 0 /\ body.shape = "array"
    THEN [Limit |-> options.Limit, StartingAfter |-> options.StartingAfter,
          HasMore |-> Len(body.page) = options.Limit]
    ELSE NoPagination

\* makeRequest from HTTPClient.Do on: (*Response, error).  From status 400
\* up the body is unmarshalled into Error, which any JSON object satisfies:
\* the API Error with Code set to the status, else "HTTP <status>: <body>"
makeRequestResult(o, options) ==
    IF o.kind = "transport"
    THEN [resp |-> NilResponse, err |-> "request failed", code |-> 0]
    ELSE IF o.kind = "unreadable"
    THEN [resp |-> NilResponse, err |-> "failed to read response body", code |-> 0]
    ELSE IF o.status >= 400
    THEN IF o.body.shape = "object"
         THEN [resp |-> NilResponse, err |-> "Orderspace API Error", code |-> o.status]
         ELSE [resp |-> NilResponse, err |-> "HTTP", code |-> o.status]
    ELSE IF o.body.shape = "empty"
    THEN [resp |-> [isNil |-> FALSE, Data |-> NoBody, Pagination |-> NoPagination],
          err |-> "", code |-> 0]
    ELSE IF o.body.shape = "invalid"
    THEN [resp |-> NilResponse, err |-> "failed to parse JSON response", code |-> 0]
    ELSE [resp |-> [isNil |-> FALSE, Data |-> o.body,
                    Pagination |-> PaginationOf(o.body, options)],
          err |-> "", code |-> 0]

\* makeRequest when addAuth failed
AuthFailed == [resp |-> NilResponse, err |-> "failed to add authentication", code |-> 0]

NoReturn == [resp |-> NilResponse, err |-> "", code |-> 0]

NilOrdersResponse == [isNil |-> TRUE, Orders |-> <<>>, Pagination |-> NoPagination]

\* Orderspace ListOrders from the GET on: direct array first, then the
\* wrapped object; a nil Data leaves orders nil
ListOrders(r) ==
    IF r.err # ""
    THEN [res |-> NilOrdersResponse, err |-> r.err]
    ELSE IF r.resp.Data.shape = "empty"
    THEN [res |-> [isNil |-> FALSE, Orders |-> <<>>,
                  Pagination |-> r.resp.Pagination], err |-> ""]
    ELSE IF r.resp.Data.shape = "array"
    THEN [res |-> [isNil |-> FALSE, Orders |-> r.resp.Data.page,
                  Pagination |-> r.resp.Pagination], err |-> ""]
    ELSE IF r.resp.Data.shape = "wrapped"
    THEN [res |-> [isNil |-> FALSE, Orders |-> r.resp.Data.page,
                  Pagination |-> r.resp.Pagination], err |-> ""]
    ELSE IF r.resp.Data.shape = "object"
    THEN [res |-> [isNil |-> FALSE, Orders |-> <<>>,
                  Pagination |-> r.resp.Pagination], err |-> ""]
    ELSE [res |-> NilOrdersResponse, err |-> "failed to unmarshal orders"]

\* WooCommerce ListOrders from the GET on: direct array only
WooListOrders(r) ==
    IF r.err # ""
    THEN [res |-> NilOrdersResponse, err |-> r.err]
    ELSE IF r.resp.Data.shape = "empty"
    THEN [res |-> [isNil |-> FALSE, Orders |-> <<>>,
                  Pagination |-> r.resp.Pagination], err |-> ""]
    ELSE IF r.resp.Data.shape = "array"
    THEN [res |-> [isNil |-> FALSE, Orders |-> r.resp.Data.page,
                  Pagination |-> r.resp.Pagination], err |-> ""]
    ELSE [res |-> NilOrdersResponse, err |-> "failed to unmarshal orders"]

\* woocommerce.Client.GET as ListOrders sees it: (*Response, error)
WooGETResults ==
    {[resp |-> NilResponse, err |-> "request failed", code |-> 0]}
    \cup {[resp |-> [isNil |-> FALSE, Data |-> b, Pagination |-> NoPagination],
            err |-> "", code |-> 0] :
            b \in {x \in OkBodies(WooPages) : x.shape # "invalid"}}

----------------------------------------------------------------------------
(* Order normalizer (service/order/service.go) *)

Days == 1..5
OrderspaceLayout ==      \* "2006-01-02T15:04:05Z"
    [days |-> <<"2024-01-01T00:00:00Z", "2024-01-02T00:00:00Z",
                "2024-01-03T00:00:00Z", "2024-01-04T00:00:00Z",
                "2024-01-05T00:00:00Z">>,
     zero |-> "0001-01-01T00:00:00Z"]
WooLayout ==             \* "2006-01-02T15:04:05"
    [days |-> <<"2024-01-01T00:00:00", "2024-01-02T00:00:00",
                "2024-01-03T00:00:00", "2024-01-04T00:00:00",
                "2024-01-05T00:00:00">>,
     zero |-> "0001-01-01T00:00:00"]
DeliveryLayout ==        \* "2006-01-02"
    [days |-> <<"2024-01-01", "2024-01-02", "2024-01-03", "2024-01-04",
                "2024-01-05">>,
     zero |-> "0001-01-01"]
DisplayLayout ==         \* "Jan 2, 2006"
    [days |-> <<"Jan 1, 2024", "Jan 2, 2024", "Jan 3, 2024", "Jan 4, 2024",
                "Jan 5, 2024">>,
     zero |-> "Jan 1, 0001"]
Itoa == <<"1", "2", "3", "4">>

\* time.Parse(layout, s): the instant when s is written in the layout;
\* January 1 of year 1, 00:00:00 UTC, is the zero time.Time
ParseTime(layout, s) ==
    IF s = layout.zero THEN [ok |-> TRUE, t |-> ZeroTime]
    ELSE IF \E d \in Days : layout.days[d] = s
    THEN [ok |-> TRUE, t |-> UnixDay(CHOOSE d \in Days : layout.days[d] = s)]
    ELSE [ok |-> FALSE, t |-> ZeroTime]

\* t.Format("Jan 2, 2006") for the instants ParseTime yields
FormatDate(t) ==
    IF t = ZeroTime THEN DisplayLayout.zero
    ELSE DisplayLayout.days[CHOOSE d \in Days : UnixDay(d) = t]

\* A string built with + is the sequence of its non-empty parts
Text(str) == IF str = "" THEN <<>> ELSE <<str>>

\* strings.TrimSpace on such a sequence: blank parts at both ends go
RECURSIVE TrimSpace(_)
TrimSpace(parts) ==
    IF parts = <<>> THEN <<>>
    ELSE IF Head(parts) = " " THEN TrimSpace(Tail(parts))
    ELSE IF parts[Len(parts)] = " " THEN TrimSpace(SubSeq(parts, 1, Len(parts) - 1))
    ELSE parts

\* strings.ToUpper
ToUpper(str) ==
    CASE str = "usd" -> "USD"
      [] str = "xyz" -> "XYZ"
      [] OTHER -> str

\* strconv.FormatFloat(amount, 'f', 2, 64): the nearest two-decimal numeral
\* of the float64, 12.345 being stored a little above and 1.999 rounding up
FormatFloat(amount) ==
    CASE amount = 0 -> "0.00"
      [] amount = 12500 -> "12.50"
      [] amount = 12345 -> "12.35"
      [] amount = 1999 -> "2.00"

\* strconv.ParseFloat(s, 64): (value, ok)
ParseFloat(str) ==
    CASE str = "12.50" -> [ok |-> TRUE, v |-> 12500]
      [] str = "1.999" -> [ok |-> TRUE, v |-> 1999]
      [] OTHER -> [ok |-> FALSE, v |-> 0]

\* cases.Title(language.English).String
TitleCase(str) ==
    CASE str = "new" -> "New"
      [] str = "on-hold" -> "On-Hold"
      [] OTHER -> str

\* a symbol table without the euro
FormatCurrencyNoEuro(amount, currency) ==
    CASE ToUpper(currency) = "USD" -> <<"$", FormatFloat(amount)>>
      [] ToUpper(currency) = "GBP" -> <<"£", FormatFloat(amount)>>
      [] OTHER -> <<FormatFloat(amount), " ">> \o Text(currency)

\* FormatCurrency (service/order/service.go:62)
FormatCurrency(amount, currency) ==
    CASE ToUpper(currency) = "USD" -> <<"$", FormatFloat(amount)>>
      [] ToUpper(currency) = "GBP" -> <<"£", FormatFloat(amount)>>
      [] ToUpper(currency) = "EUR" -> <<"€", FormatFloat(amount)>>
      [] OTHER -> <<FormatFloat(amount), " ">> \o Text(currency)

\* a fallback that leaves the zero time.Time of the failed parse
SortDateOfZero(p, t) == p.t

\* sortDate, err := time.Parse(...); if err != nil { sortDate = time.Now() }
SortDateOf(p, t) == IF p.ok THEN p.t ELSE t

\* a display date that is dropped when the parse fails
OrderDateOfBlank(p, raw) == IF p.ok THEN FormatDate(p.t) ELSE ""

\* orderDate := raw; if err == nil { orderDate = sortDate.Format("Jan 2, 2006") }
OrderDateOf(p, raw) == IF p.ok THEN FormatDate(p.t) ELSE raw

\* a chain that stops at the company name
OrderspaceCustomerCompanyOnly(order) == order.CompanyName

\* customer of an Orderspace order: CompanyName, else the billing address's
\* ContactName
OrderspaceCustomer(order) ==
    IF order.CompanyName = "" /\ order.BillingAddress.ContactName # ""
    THEN order.BillingAddress.ContactName
    ELSE order.CompanyName

\* customer of a WooCommerce order: the trimmed "<first> <last>" of the billing
\* address, else its Email
WooCustomer(order) ==
    LET name == TrimSpace(Text(order.Billing.FirstName) \o <<" ">>
                          \o Text(order.Billing.LastName))
    IN IF name = <<>> THEN Text(order.Billing.Email) ELSE name

\* a delivery date that is left empty when the source has none
DeliverOnOfEmpty(delivery) ==
    LET d == ParseTime(DeliveryLayout, delivery)
    IN IF d.ok THEN FormatDate(d.t) ELSE delivery

\* deliverOn of an Orderspace order
DeliverOnOf(delivery) ==
    LET d == ParseTime(DeliveryLayout, delivery)
    IN IF delivery = "" THEN "N/A"
       ELSE IF d.ok THEN FormatDate(d.t) ELSE delivery

\* ConvertOrderspaceOrder (service/order/service.go:115); t is time.Now()
ConvertOrderspaceOrder(order, t) ==
    LET p == ParseTime(OrderspaceLayout, order.Created) IN
    [ID |-> order.ID,
     OrderNumber |-> order.Number,
     Customer |-> Text(OrderspaceCustomer(order)),
     OrderDate |-> OrderDateOf(p, order.Created),
     DeliverOn |-> DeliverOnOf(order.DeliveryDate),
     Total |-> FormatCurrency(order.GrossTotal, order.Currency),
     Status |-> TitleCase(order.Status),
     Origin |-> "Orderspace",
     SortDate |-> SortDateOf(p, t)]

\* ConvertWooOrder (service/order/service.go:76); t is time.Now()
ConvertWooOrder(order, t) ==
    LET p == ParseTime(WooLayout, order.DateCreated)
        total == ParseFloat(order.Total)
    IN
    [ID |-> Itoa[order.ID],
     OrderNumber |-> order.ID,
     Customer |-> WooCustomer(order),
     OrderDate |-> OrderDateOf(p, order.DateCreated),
     DeliverOn |-> "N/A",
     Total |-> FormatCurrency(IF total.ok THEN total.v ELSE 0, order.Currency),
     Status |-> TitleCase(order.Status),
     Origin |-> "WooCommerce",
     SortDate |-> SortDateOf(p, t)]

Convert(task, order, t) ==
    IF task = Orderspace THEN ConvertOrderspaceOrder(order, t)
    ELSE ConvertWooOrder(order, t)

\* the first loop of a goroutine: one converted order per raw order, in order
Transform(task, page, t) == [i \in 1..Len(page) |-> Convert(task, page[i], t)]

----------------------------------------------------------------------------
(* sort.Slice (server/renderer.go:233) *)

\* the comparison the wrong way round
LessAscending(a, b) == After(b.SortDate, a.SortDate)

\* orders[i].SortDate.After(orders[j].SortDate)
Less(a, b) == After(a.SortDate, b.SortDate)

\* the inner loop of insertion sort: sink element j while it is Less than
\* its left neighbour
RECURSIVE Sink(_, _)
Sink(s, j) ==
    IF j > 1 /\ Less(s[j], s[j - 1])
    THEN Sink([s EXCEPT ![j] = s[j - 1], ![j - 1] = s[j]], j - 1)
    ELSE s

RECURSIVE InsertionSort(_, _)
InsertionSort(s, i) ==
    IF i > Len(s) THEN s ELSE InsertionSort(Sink(s, i), i + 1)

\* the handler without its sort
SortSliceOmitted(s) == s

\* sort.Slice on a slice of at most 12 elements is an insertion sort
SortSlice(s) == InsertionSort(s, 2)

----------------------------------------------------------------------------
(* Initial state: order.New has built both clients, no request served yet *)

NoResponse ==
    [status |-> 0, body |-> "", orders |-> <<>>, json |-> "", written |-> FALSE]
NoResult == [res |-> NilOrdersResponse, err |-> ""]
NotSent == [at |-> ZeroTime, bearer |-> "", done |-> FALSE]
NoIssue == [T |-> ZeroTime, E |-> 0]
NoValue == [none |-> TRUE]
NotCalled == "GetOrder not called"
NoRequest == [Method |-> "", Path |-> ""]
Callers == {"first", "second"}
NoData == [err |-> "", code |-> 0, answered |-> FALSE]
SawNothing == [found |-> "none", expiresIn |-> 0, bearer |-> ""]

Init ==
    /\ now = StartTime
    /\ accessToken = NewClient.accessToken
    /\ tokenExpiry = NewClient.tokenExpiry
    /\ tokIssue = NoIssue
    /\ reqPc = "idle"
    /\ reqCaller = ""
    /\ reqKind = ""
    /\ reqRet = NoReturn
    /\ trace = <<>>
    /\ checkState = "none"
    /\ checkedAt = ZeroTime
    /\ sent = NotSent
    /\ tokenAccess = {}
    /\ tokenTrips = 0
    /\ calls = 0
    /\ hPc = "idle"
    /\ taskPc = [t \in Tasks |-> "none"]
    /\ res = [t \in Tasks |-> NoResult]
    /\ transformed = [t \in Tasks |-> <<>>]
    /\ idx = [t \in Tasks |-> 0]
    /\ loaded = [t \in Tasks |-> <<>>]
    /\ orders = <<>>
    /\ mu = ""
    /\ inCS = {}
    /\ wg = 0
    /\ response = NoResponse
    /\ logs = {}
    /\ crashed = FALSE
    /\ invocations = 0
    /\ lPc = "idle"
    /\ lOrigin = ""
    /\ lOrderID = ""
    /\ lErr = NotCalled
    /\ fnPc = "idle"
    /\ fnIn = NoValue
    /\ fnStart = ZeroTime
    /\ fnOut = NoValue
    /\ requests = [t \in Tasks |-> <<>>]
    /\ lastData = NoData
    /\ mwPc = "idle"
    /\ mwReq = NoRequest
    /\ mwRid = ""
    /\ mwSeen = <<>>
    /\ mwStatus = 0
    /\ mwLogged = ""
    /\ ovPc = [c \in Callers |-> "idle"]
    /\ ovSaw = [c \in Callers |-> SawNothing]
    /\ ovRace = FALSE

\* no handler is running and no goroutine is left
ServerIdle ==
    /\ hPc \in {"idle", "done"}
    /\ lPc \in {"idle", "done"}
    /\ \A t \in Tasks : taskPc[t] \in {"none", "done"}

----------------------------------------------------------------------------
(* Client.makeRequest of the Orderspace client *)

\* state of the cached token as a request finds it
TokenState(tok, expiry, t) ==
    IF tok = "" THEN "absent" ELSE IF t > expiry THEN "expired" ELSE "valid"

\* the caller enters makeRequest: buildURL, http.NewRequest, headers
EnterMakeRequest(caller, kind) ==
    /\ reqPc = "idle"
    /\ reqPc' = "auth"
    /\ reqCaller' = caller
    /\ reqKind' = kind
    /\ reqRet' = NoReturn
    /\ trace' = <<>>
    /\ checkState' = "none"
    /\ checkedAt' = ZeroTime
    /\ sent' = NotSent
    /\ calls' = calls + 1
    /\ UNCHANGED <<tokenAccess, tokenTrips>>

\* makeRequest has returned to its caller; the call's history ends with it
LeaveMakeRequest ==
    /\ reqPc' = "idle"
    /\ reqCaller' = ""
    /\ reqKind' = ""
    /\ reqRet' = NoReturn
    /\ trace' = <<>>
    /\ checkState' = "none"
    /\ checkedAt' = ZeroTime
    /\ sent' = NotSent

\* addAuth -> ensureValidToken; with a usable token the Authorization header
\* is set and HTTPClient.Do sends the data request, otherwise getAccessToken
\* posts to the token endpoint
EnsureValidToken ==
    /\ ~crashed
    /\ reqPc = "auth"
    /\ tokenAccess' = tokenAccess \cup {reqCaller}
    /\ checkState' = TokenState(accessToken, tokenExpiry, now)
    /\ checkedAt' = now
    /\ IF NeedsToken(accessToken, tokenExpiry, now)
       THEN /\ reqPc' = "token_rt"
            /\ trace' = Append(trace, "token")
            /\ tokenTrips' = tokenTrips + 1
            /\ UNCHANGED sent
       ELSE /\ reqPc' = "data_rt"
            /\ trace' = Append(trace, "data")
            /\ sent' = [at |-> now, bearer |-> accessToken, done |-> TRUE]
            /\ UNCHANGED tokenTrips
    /\ UNCHANGED <<now, clientVars, reqCaller, reqKind, reqRet, calls,
                   taskVars, handlerVars, lookupVars, fnVars, reqVars, mwVars, ovVars>>

\* a getAccessToken that forgets the cached token when the acquisition fails
TokenFieldsClearedOnFailure(o, old, t) ==
    IF getAccessTokenErr(o) = ""
    THEN [accessToken |-> o.access_token,
          tokenExpiry |-> NewTokenExpiry(t, o.expires_in)]
    ELSE NewClient

\* accessToken and tokenExpiry when getAccessToken returns: both assigned
\* past the last early return, neither before it
TokenFieldsAfter(o, old, t) ==
    IF getAccessTokenErr(o) = ""
    THEN [accessToken |-> o.access_token,
          tokenExpiry |-> NewTokenExpiry(t, o.expires_in)]
    ELSE old

\* getAccessToken from HTTPClient.Do on, then back in addAuth and makeRequest
TokenResponse ==
    /\ ~crashed
    /\ reqPc = "token_rt"
    /\ \E o \in TokenOutcomes :
        LET after == TokenFieldsAfter(o, [accessToken |-> accessToken,
                                         tokenExpiry |-> tokenExpiry], now)
        IN  /\ accessToken' = after.accessToken
            /\ tokenExpiry' = after.tokenExpiry
            /\ IF getAccessTokenErr(o) = ""
               THEN /\ tokIssue' = [T |-> now, E |-> o.expires_in]
                    /\ tokenAccess' = tokenAccess \cup {reqCaller}
                    /\ reqPc' = "data_rt"
                    /\ trace' = Append(trace, "data")
                    /\ sent' = [at |-> now, bearer |-> o.access_token,
                                done |-> TRUE]
                    /\ UNCHANGED reqRet
               ELSE /\ reqRet' = AuthFailed
                    /\ reqPc' = "ret"
                    /\ UNCHANGED <<tokIssue, tokenAccess, trace, sent>>
    /\ UNCHANGED <<now, reqCaller, reqKind, checkState, checkedAt, tokenTrips,
                   calls, taskVars, handlerVars, lookupVars, fnVars, reqVars, mwVars, ovVars>>

\* a makeRequest that drops the token when the API refuses it
TokenFieldsDroppedOnRefusal(o, old) ==
    IF o.kind = "http" /\ o.status = 401 THEN NewClient ELSE old

\* accessToken and tokenExpiry when makeRequest returns from the data
\* request: no branch of it assigns them
TokenFieldsAfterData(o, old) == old

\* makeRequest from the response of the data request on
DataResponseOf(outcomes) ==
    /\ ~crashed
    /\ reqPc = "data_rt"
    /\ \E o \in outcomes :
        LET after == TokenFieldsAfterData(o, [accessToken |-> accessToken,
                                             tokenExpiry |-> tokenExpiry])
            result == makeRequestResult(o, RequestOptionsOf(reqKind))
        IN  /\ accessToken' = after.accessToken
            /\ tokenExpiry' = after.tokenExpiry
            /\ reqRet' = result
            /\ lastData' = [err |-> result.err, code |-> result.code,
                            answered |-> TRUE]
    /\ reqPc' = "ret"
    /\ UNCHANGED <<now, tokIssue, reqCaller, reqKind, trace, checkState,
                   checkedAt, sent, tokenAccess, tokenTrips, calls,
                   taskVars, handlerVars, lookupVars, fnVars, requests, mwVars,
                   ovVars>>

DataResponse ==
    DataResponseOf(IF reqKind = "list" THEN ListOutcomes ELSE GetOutcomes)

\* the same when the source has a full page to give
DataResponsePaging == DataResponseOf(PagingOutcomes)

----------------------------------------------------------------------------
(* handleGetOrders (server/renderer.go:187, server/routes.go:47) *)

\* both goroutines calling the Orderspace client
FetchClientPasted(t) == Orderspace

\* the client whose GetLast10Orders goroutine t calls
FetchClient(t) == t

\* an append loop that does not wait for the mutex
CanLockAlways(m) == TRUE

\* sync.Mutex.Lock returns only when the mutex is unlocked
CanLock(m) == m = ""

\* a join that lets one goroutine run on
WaitReturnsEarly(w) == w <= 1

\* sync.WaitGroup.Wait returns only when the counter is zero
WaitReturns(w) == w = 0

\* an accumulator that outlives the invocation
OrdersKept(old) == old

\* orders := []order.Order{}: a local of the invocation, empty and not nil
NewOrders(old) == <<>>

\* a request for the order list arrives; the handler's locals are fresh
HandleGetOrders ==
    /\ ~crashed
    /\ ServerIdle
    /\ reqPc = "idle"
    /\ invocations < MaxInvocations
    /\ invocations' = invocations + 1
    /\ hPc' = "go"
    /\ taskPc' = [t \in Tasks |-> "none"]
    /\ res' = [t \in Tasks |-> NoResult]
    /\ transformed' = [t \in Tasks |-> <<>>]
    /\ idx' = [t \in Tasks |-> 0]
    /\ loaded' = [t \in Tasks |-> <<>>]
    /\ orders' = NewOrders(orders)
    /\ mu' = ""
    /\ inCS' = {}
    /\ wg' = 0
    /\ response' = NoResponse
    /\ logs' = {}
    /\ tokenAccess' = {}
    /\ requests' = [t \in Tasks |-> <<>>]
    /\ lastData' = NoData
    /\ lPc' = "idle"
    /\ UNCHANGED <<now, clientVars, reqPc, reqCaller, reqKind, reqRet, trace,
                   checkState, checkedAt, sent, tokenTrips, calls, crashed,
                   lOrigin, lOrderID, lErr, fnVars, mwVars, ovVars>>

\* wg.Go(func() {...}): first the Orderspace goroutine, then the WooCommerce one
GoTask(t) ==
    /\ ~crashed
    /\ hPc = "go"
    /\ taskPc[t] = "none"
    /\ t = WooCommerce => taskPc[Orderspace] # "none"
    /\ wg' = wg + 1
    /\ taskPc' = [taskPc EXCEPT ![t] = "fetch"]
    /\ hPc' = IF t = WooCommerce THEN "wait" ELSE "go"
    /\ UNCHANGED <<now, clientVars, callVars, res, transformed, idx, loaded,
                   orders, mu, inCS, response, logs, crashed, invocations,
                   lookupVars, fnVars, reqVars, mwVars, ovVars>>

\* GetLast10Orders -> GetAllOrders(10, "") -> ListOrders -> GET -> makeRequest
TaskCallOrderspace(t) ==
    /\ ~crashed
    /\ taskPc[t] = "fetch"
    /\ FetchClient(t) = Orderspace
    /\ EnterMakeRequest(t, "list")
    /\ requests' = [requests EXCEPT
                        ![t] = Append(@, [source |-> Orderspace,
                                          options |-> OrderspaceLast10Options])]
    /\ taskPc' = [taskPc EXCEPT ![t] = "await"]
    /\ UNCHANGED <<now, clientVars, res, transformed, idx, loaded, orders, mu,
                   inCS, wg, handlerVars, lookupVars, fnVars, lastData, mwVars,
                   ovVars>>

\* ListOrders of the Orderspace client from the return of GET on
TaskReturnOrderspace(t) ==
    /\ ~crashed
    /\ taskPc[t] = "await"
    /\ reqPc = "ret"
    /\ reqCaller = t
    /\ res' = [res EXCEPT ![t] = ListOrders(reqRet)]
    /\ LeaveMakeRequest
    /\ taskPc' = [taskPc EXCEPT ![t] = "got"]
    /\ UNCHANGED <<now, clientVars, tokenAccess, tokenTrips, calls,
                   transformed, idx, loaded, orders, mu, inCS, wg,
                   handlerVars, lookupVars, fnVars, reqVars, mwVars, ovVars>>

\* GetLast10Orders of the WooCommerce client: GetLastOrders(10) -> ListOrders
TaskFetchWoo(t) ==
    /\ ~crashed
    /\ taskPc[t] = "fetch"
    /\ FetchClient(t) = WooCommerce
    /\ \E r \in WooGETResults : res' = [res EXCEPT ![t] = WooListOrders(r)]
    /\ requests' = [requests EXCEPT
                        ![t] = Append(@, [source |-> WooCommerce,
                                          options |-> WooLastOrdersOptions(PageSize)])]
    /\ taskPc' = [taskPc EXCEPT ![t] = "got"]
    /\ UNCHANGED <<now, clientVars, callVars, transformed, idx, loaded, orders,
                   mu, inCS, wg, handlerVars, lookupVars, fnVars, lastData,
                   mwVars, ovVars>>

\* if err != nil { l.Error(...) }; for _, v := range res.Orders {...}:
\* res is nil when err is not, and res.Orders then panics
TaskTransform(t) ==
    /\ ~crashed
    /\ taskPc[t] = "got"
    /\ logs' = IF res[t].err # "" THEN logs \cup {<<t, "fetching orders failed">>}
               ELSE logs
    /\ IF res[t].res.isNil
       THEN /\ taskPc' = [taskPc EXCEPT ![t] = "panicking"]
            /\ UNCHANGED <<transformed, idx>>
       ELSE /\ transformed' = [transformed EXCEPT
                                 ![t] = Transform(t, res[t].res.Orders, now)]
            /\ idx' = [idx EXCEPT ![t] = 1]
            /\ taskPc' = [taskPc EXCEPT ![t] =
                    IF Len(res[t].res.Orders) = 0 THEN "return" ELSE "lock"]
    /\ UNCHANGED <<now, clientVars, callVars, res, loaded, orders, mu, inCS, wg,
                   hPc, response, crashed, invocations, lookupVars, fnVars, reqVars, mwVars, ovVars>>

\* mu.Lock()
TaskLock(t) ==
    /\ ~crashed
    /\ taskPc[t] = "lock"
    /\ CanLock(mu)
    /\ mu' = t
    /\ inCS' = inCS \cup {t}
    /\ taskPc' = [taskPc EXCEPT ![t] = "append"]
    /\ UNCHANGED <<now, clientVars, callVars, res, transformed, idx, loaded,
                   orders, wg, handlerVars, lookupVars, fnVars, reqVars, mwVars, ovVars>>

\* orders = append(orders, v): the slice is read ...
TaskLoad(t) ==
    /\ ~crashed
    /\ taskPc[t] = "append"
    /\ loaded' = [loaded EXCEPT ![t] = orders]
    /\ taskPc' = [taskPc EXCEPT ![t] = "store"]
    /\ UNCHANGED <<now, clientVars, callVars, res, transformed, idx, orders,
                   mu, inCS, wg, handlerVars, lookupVars, fnVars, reqVars, mwVars, ovVars>>

\* ... and the grown slice is written back; mu.Unlock(), and the next
\* iteration of the append loop
TaskStoreUnlock(t) ==
    /\ ~crashed
    /\ taskPc[t] = "store"
    /\ orders' = Append(loaded[t], transformed[t][idx[t]])
    /\ loaded' = [loaded EXCEPT ![t] = <<>>]
    /\ mu' = ""
    /\ inCS' = inCS \ {t}
    /\ idx' = [idx EXCEPT ![t] = idx[t] + 1]
    /\ taskPc' = [taskPc EXCEPT ![t] =
            IF idx[t] + 1 > Len(transformed[t]) THEN "return" ELSE "lock"]
    /\ UNCHANGED <<now, clientVars, callVars, res, transformed, wg,
                   handlerVars, lookupVars, fnVars, reqVars, mwVars, ovVars>>

\* the goroutine's function returns: wg.Done()
TaskReturn(t) ==
    /\ ~crashed
    /\ taskPc[t] = "return"
    /\ wg' = wg - 1
    /\ taskPc' = [taskPc EXCEPT ![t] = "done"]
    /\ UNCHANGED <<now, clientVars, callVars, res, transformed, idx, loaded,
                   orders, mu, inCS, handlerVars, lookupVars, fnVars, reqVars, mwVars, ovVars>>

\* the panic unwinds the goroutine: a deferred wg.Done() runs first
TaskPanicDone(t) ==
    /\ ~crashed
    /\ taskPc[t] = "panicking"
    /\ wg' = wg - 1
    /\ taskPc' = [taskPc EXCEPT ![t] = "dying"]
    /\ UNCHANGED <<now, clientVars, callVars, res, transformed, idx, loaded,
                   orders, mu, inCS, handlerVars, lookupVars, fnVars, reqVars, mwVars, ovVars>>

\* nothing recovers a panic of a goroutine: the runtime ends the process
TaskPanicExit(t) ==
    /\ ~crashed
    /\ taskPc[t] \in {"panicking", "dying"}
    /\ crashed' = TRUE
    /\ UNCHANGED <<now, clientVars, callVars, taskVars, hPc, response, logs,
                   invocations, lookupVars, fnVars, reqVars, mwVars, ovVars>>

\* wg.Wait()
HandlerWait ==
    /\ ~crashed
    /\ hPc = "wait"
    /\ WaitReturns(wg)
    /\ hPc' = "sort"
    /\ UNCHANGED <<now, clientVars, callVars, taskVars, response, logs, crashed,
                   invocations, lookupVars, fnVars, reqVars, mwVars, ovVars>>

\* sort.Slice(orders, ...)
HandlerSort ==
    /\ ~crashed
    /\ hPc = "sort"
    /\ orders' = SortSlice(orders)
    /\ hPc' = "respond"
    /\ UNCHANGED <<now, clientVars, callVars, taskPc, res, transformed, idx,
                   loaded, mu, inCS, wg, response, logs, crashed, invocations,
                   lookupVars, fnVars, reqVars, mwVars, ovVars>>

\* json.Encoder on a slice that was declared without a value: null while
\* nothing has been appended
encodeNilSlice(v) ==
    IF Len(v) = 0 THEN [kind |-> "null", ids |-> <<>>]
    ELSE [kind |-> "array", ids |-> [i \in DOMAIN v |-> v[i].ID]]

\* json.NewEncoder(w).Encode(orders): orders is never nil, so an array
\* even when it is empty
encode(v) == [kind |-> "array", ids |-> [i \in DOMAIN v |-> v[i].ID]]

\* encode(w, r, 200, orders) or t.Render(w, "orders", data); a failure of
\* either is answered with http.Error(..., 500)
HandlerRespond ==
    /\ ~crashed
    /\ hPc = "respond"
    /\ \E ok \in BOOLEAN :
        response' = [status |-> IF ok THEN StatusOK ELSE StatusInternalServerError,
                     body |-> IF ok THEN "orders" ELSE "error",
                     orders |-> orders,
                     json |-> IF ok THEN encode(orders) ELSE "",
                     written |-> TRUE]
    /\ hPc' = "done"
    /\ UNCHANGED <<now, clientVars, callVars, taskVars, logs, crashed,
                   invocations, lookupVars, fnVars, reqVars, mwVars, ovVars>>

----------------------------------------------------------------------------
(* handleGetOrder (server/renderer.go:260) *)

Origins == {"", Orderspace, WooCommerce, "Shopify"}
OrderIDs == {"42", "abc"}

\* an origin check that lets every origin through
validateOriginAny(origin) == TRUE

validateOrigin(origin) == origin = WooCommerce \/ origin = Orderspace

\* a conversion that never fails
AtoiLenient(str) == [ok |-> TRUE, v |-> 0]

\* strconv.Atoi: (value, ok)
Atoi(str) == IF str = "42" THEN [ok |-> TRUE, v |-> 42] ELSE [ok |-> FALSE, v |-> 0]

\* Orderspace GetOrder from the return of GET on: error or nil
GetOrderErr(r) ==
    IF r.err # "" THEN r.err
    ELSE IF r.resp.Data.shape = "empty" THEN "no data in response"
    ELSE IF r.resp.Data.shape = "object" THEN ""
    ELSE "failed to unmarshal order"

\* WooCommerce GetOrder from the return of GET on: error or nil
WooGetOrderErr(r) ==
    IF r.err # "" THEN r.err
    ELSE IF r.resp.Data.shape \in {"empty", "object"} THEN ""
    ELSE "failed to unmarshal order"

\* http.Error(w, ..., status), or the order written with status 200
Answer(status, body) ==
    [status |-> status, body |-> body, orders |-> <<>>, json |-> "",
     written |-> TRUE]

\* a request for one order arrives: origin check, then the switch up to the
\* call of the matching client
HandleGetOrder ==
    /\ ~crashed
    /\ ServerIdle
    /\ reqPc = "idle"
    /\ invocations < MaxInvocations
    /\ invocations' = invocations + 1
    /\ hPc' = "idle"
    /\ tokenAccess' = {}
    /\ lErr' = NotCalled
    /\ \E origin \in Origins, id \in OrderIDs :
        /\ lOrigin' = origin
        /\ lOrderID' = id
        /\ IF origin = "" \/ ~validateOrigin(origin)
           THEN /\ response' = Answer(StatusBadRequest, "error")
                /\ logs' = {<<"handler", "Invalid or missing origin">>}
                /\ lPc' = "done"
                /\ UNCHANGED <<reqPc, reqCaller, reqKind, reqRet, trace,
                               checkState, checkedAt, sent, calls>>
           ELSE IF origin = Orderspace
           THEN /\ response' = NoResponse
                /\ logs' = {}
                /\ lPc' = "await"
                /\ reqPc' = "auth"
                /\ reqCaller' = "handler"
                /\ reqKind' = "get"
                /\ reqRet' = NoReturn
                /\ trace' = <<>>
                /\ checkState' = "none"
                /\ checkedAt' = ZeroTime
                /\ sent' = NotSent
                /\ calls' = calls + 1
           ELSE IF origin = WooCommerce
           THEN IF ~Atoi(id).ok
                THEN /\ response' = Answer(StatusBadRequest, "error")
                     /\ logs' = {<<"handler", "error parsing woocommerce orderID">>}
                     /\ lPc' = "done"
                     /\ UNCHANGED <<reqPc, reqCaller, reqKind, reqRet, trace,
                                    checkState, checkedAt, sent, calls>>
                ELSE /\ response' = NoResponse
                     /\ logs' = {}
                     /\ lPc' = "woo"
                     /\ UNCHANGED <<reqPc, reqCaller, reqKind, reqRet, trace,
                                    checkState, checkedAt, sent, calls>>
           ELSE \* default: the "healthy" JSON object, status 200
                /\ response' = Answer(StatusOK, "healthy")
                /\ logs' = {}
                /\ lPc' = "done"
                /\ UNCHANGED <<reqPc, reqCaller, reqKind, reqRet, trace,
                               checkState, checkedAt, sent, calls>>
    /\ UNCHANGED <<now, clientVars, tokenTrips, taskVars, crashed, fnVars, reqVars, mwVars, ovVars>>

\* the handler from the return of GetOrder on: an error is answered with
\* 500; the order is rendered or encoded, and a failure of that is a 500 too
LookupAnswer(err, written) ==
    IF err # "" THEN Answer(StatusInternalServerError, "error")
    ELSE IF written THEN Answer(StatusOK, "order")
    ELSE Answer(StatusInternalServerError, "error")

\* case Orderspace, from the return of GetOrder on
LookupOrderspaceReturn ==
    /\ ~crashed
    /\ lPc = "await"
    /\ reqPc = "ret"
    /\ reqCaller = "handler"
    /\ LeaveMakeRequest
    /\ lPc' = "done"
    /\ lErr' = GetOrderErr(reqRet)
    /\ \E ok \in BOOLEAN : response' = LookupAnswer(GetOrderErr(reqRet), ok)
    /\ logs' = IF GetOrderErr(reqRet) # ""
               THEN logs \cup {<<"handler", "error retrieving order details">>}
               ELSE logs
    /\ UNCHANGED <<now, clientVars, tokenAccess, tokenTrips, calls,
                   taskVars, hPc, crashed, invocations, lOrigin, lOrderID,
                   fnVars, reqVars, mwVars, ovVars>>

\* case WooCommerce, from the call of GetOrder on
LookupWooReturn ==
    /\ ~crashed
    /\ lPc = "woo"
    /\ lPc' = "done"
    /\ \E r \in WooGETResults, ok \in BOOLEAN :
        /\ lErr' = WooGetOrderErr(r)
        /\ response' = LookupAnswer(WooGetOrderErr(r), ok)
        /\ logs' = IF WooGetOrderErr(r) # ""
                   THEN logs \cup {<<"handler", "error retrieving order details">>}
                   ELSE logs
    /\ UNCHANGED <<now, clientVars, callVars, taskVars, hPc, crashed,
                   invocations, lOrigin, lOrderID, fnVars, reqVars, mwVars, ovVars>>

----------------------------------------------------------------------------
(* Two makeRequest calls of the one Orderspace client that overlap: net/http
   serves every request in a goroutine of its own, and Client has no lock *)

OtherCaller(c) == CHOOSE d \in Callers : d # c

\* the call of c is between its entry and its return
Running(c) == ovPc[c] \notin {"idle", "done"}

\* what the overlapping calls leave alone
ovFrame == <<tokIssue, reqPc, reqCaller, reqKind, reqRet, trace, checkState,
             checkedAt, sent, tokenAccess, taskVars, handlerVars, lookupVars,
             fnVars, reqVars, mwVars>>

\* the Orderspace goroutine of an invocation calls GetLast10Orders
OvEnter(c) ==
    /\ ovPc[c] \in {"idle", "done"}
    /\ calls < MaxInvocations
    /\ calls' = calls + 1
    /\ ovPc' = [ovPc EXCEPT ![c] = "auth"]
    /\ ovSaw' = [ovSaw EXCEPT ![c] = SawNothing]
    /\ UNCHANGED <<now, accessToken, tokenExpiry, tokenTrips, ovRace, ovFrame>>

\* ensureValidToken reads c.accessToken and c.tokenExpiry
OvEnsureValidToken(c) ==
    /\ ovPc[c] = "auth"
    /\ ovSaw' = [ovSaw EXCEPT
                    ![c].found = TokenState(accessToken, tokenExpiry, now)]
    /\ IF NeedsToken(accessToken, tokenExpiry, now)
       THEN /\ ovPc' = [ovPc EXCEPT ![c] = "token_rt"]
            /\ tokenTrips' = tokenTrips + 1
       ELSE /\ ovPc' = [ovPc EXCEPT ![c] = "header"]
            /\ UNCHANGED tokenTrips
    /\ UNCHANGED <<now, accessToken, tokenExpiry, calls, ovRace, ovFrame>>

\* getAccessToken from the token response on: c.accessToken = ...
OvTokenResponse(c) ==
    /\ ovPc[c] = "token_rt"
    /\ \E o \in TokenOutcomes :
        IF getAccessTokenErr(o) = ""
        THEN /\ accessToken' = o.access_token
             /\ ovSaw' = [ovSaw EXCEPT ![c].expiresIn = o.expires_in]
             /\ ovRace' = (ovRace \/ Running(OtherCaller(c)))
             /\ ovPc' = [ovPc EXCEPT ![c] = "store_expiry"]
        ELSE /\ ovPc' = [ovPc EXCEPT ![c] = "done"]
             /\ UNCHANGED <<accessToken, ovSaw, ovRace>>
    /\ UNCHANGED <<now, tokenExpiry, tokenTrips, calls, ovFrame>>

\* ... and, as a separate store, c.tokenExpiry = time.Now().Add(...)
OvStoreExpiry(c) ==
    /\ ovPc[c] = "store_expiry"
    /\ tokenExpiry' = NewTokenExpiry(now, ovSaw[c].expiresIn)
    /\ ovRace' = (ovRace \/ Running(OtherCaller(c)))
    /\ ovPc' = [ovPc EXCEPT ![c] = "header"]
    /\ UNCHANGED <<now, accessToken, tokenTrips, calls, ovSaw, ovFrame>>

\* addAuth: "Bearer "+c.accessToken, read again after the check; then
\* HTTPClient.Do sends the data request
OvSetHeader(c) ==
    /\ ovPc[c] = "header"
    /\ ovSaw' = [ovSaw EXCEPT ![c].bearer = accessToken]
    /\ ovPc' = [ovPc EXCEPT ![c] = "data_rt"]
    /\ UNCHANGED <<now, accessToken, tokenExpiry, tokenTrips, calls, ovRace,
                   ovFrame>>

\* the data request is answered and makeRequest returns
OvDataResponse(c) ==
    /\ ovPc[c] = "data_rt"
    /\ ovPc' = [ovPc EXCEPT ![c] = "done"]
    /\ UNCHANGED <<now, accessToken, tokenExpiry, tokenTrips, calls, ovSaw,
                   ovRace, ovFrame>>

----------------------------------------------------------------------------
(* The handler chain of server.New (middleware/middleware.go) *)

Methods == {"GET", "POST", "PUT", "DELETE", "OPTIONS"}
Paths == {"/", "/orders", "/orders/Orderspace/42", "/health", "/nowhere"}

\* generateRequestID: 16 random bytes in hex, all zero when rand.Read fails
RequestIDs == {"00000000000000000000000000000000",
               "5f2b8c1d9e3a4b6c7d8e9f0a1b2c3d4e"}

\* what a route handler of the mux does with a request
RouteOutcomes ==
    {[panics |-> FALSE, status |-> st] :
        st \in {StatusOK, StatusBadRequest, 404, 405, StatusInternalServerError}}
    \cup {[panics |-> TRUE, status |-> 0]}

Reverse(s) == [i \in 1..Len(s) |-> s[Len(s) + 1 - i]]

\* a chain built with RequestID wrapped first, inside Logging
WrappedRequestIDFirst == <<"RequestID", "Logging", "CORS">>

\* server.New: handler = Logging(mux); handler = RequestID(handler);
\* handler = CORS(handler)
Wrapped == <<"Logging", "RequestID", "CORS">>

\* the layers in the order a request passes them: the last wrapped first
Chain == Reverse(Wrapped) \o <<"mux">>

\* next.ServeHTTP of a layer
NextLayer(layer) ==
    Chain[(CHOOSE i \in DOMAIN Chain : Chain[i] = layer) + 1]

\* what the chain leaves alone
mwFrame == <<now, clientVars, callVars, taskVars, handlerVars, lookupVars,
             fnVars, reqVars, ovVars>>

\* net/http hands a request to the outermost layer
ServeHTTP ==
    /\ mwPc \in {"idle", "done"}
    /\ \E m \in Methods, p \in Paths : mwReq' = [Method |-> m, Path |-> p]
    /\ mwPc' = Chain[1]
    /\ mwRid' = ""
    /\ mwSeen' = <<>>
    /\ mwStatus' = 0
    /\ mwLogged' = ""
    /\ UNCHANGED mwFrame

\* CORS: headers, and the preflight answered here
CORS ==
    /\ mwPc = "CORS"
    /\ mwSeen' = Append(mwSeen, "CORS")
    /\ IF mwReq.Method = "OPTIONS"
       THEN /\ mwStatus' = StatusOK
            /\ mwPc' = "done"
       ELSE /\ mwPc' = NextLayer("CORS")
            /\ UNCHANGED mwStatus
    /\ UNCHANGED <<mwReq, mwRid, mwLogged, mwFrame>>

\* RequestID: context.WithValue(r.Context(), ridKey, generateRequestID())
RequestID ==
    /\ mwPc = "RequestID"
    /\ mwSeen' = Append(mwSeen, "RequestID")
    /\ \E id \in RequestIDs : mwRid' = id
    /\ mwPc' = NextLayer("RequestID")
    /\ UNCHANGED <<mwReq, mwStatus, mwLogged, mwFrame>>

\* Logging up to next.ServeHTTP: /health passes unlogged; otherwise the
\* request ID is read from the context, "unknown" when it is not there
Logging ==
    /\ mwPc = "Logging"
    /\ mwSeen' = Append(mwSeen, "Logging")
    /\ mwLogged' = IF mwReq.Path = "/health" THEN ""
                   ELSE IF mwRid = "" THEN "unknown"
                   ELSE mwRid
    /\ mwPc' = NextLayer("Logging")
    /\ UNCHANGED <<mwReq, mwRid, mwStatus, mwFrame>>

\* the mux and its route handler; a panic of the handler is recovered by
\* Logging with a 500 unless Logging let the request pass unlogged
Mux ==
    /\ mwPc = "mux"
    /\ mwSeen' = Append(mwSeen, "mux")
    /\ \E out \in RouteOutcomes :
        mwStatus' = IF ~out.panics THEN out.status
                    ELSE IF mwLogged # "" THEN StatusInternalServerError
                    ELSE 0
    /\ mwPc' = "done"
    /\ UNCHANGED <<mwReq, mwRid, mwLogged, mwFrame>>

----------------------------------------------------------------------------
(* The clock *)

\* a request is on the network
InFlight ==
    \/ reqPc \in {"token_rt", "data_rt"}
    \/ lPc = "woo"

Tick ==
    /\ ~crashed
    /\ InFlight \/ ServerIdle
    /\ now < StartTime + MaxTicks * TickStep
    /\ now' = now + TickStep
    /\ UNCHANGED <<clientVars, callVars, taskVars, handlerVars, lookupVars, fnVars, reqVars, mwVars, ovVars>>

----------------------------------------------------------------------------
(* Specifications *)

ClientStep == EnsureValidToken \/ TokenResponse \/ DataResponse

TaskStep(t) ==
    \/ TaskCallOrderspace(t)
    \/ TaskReturnOrderspace(t)
    \/ TaskFetchWoo(t)
    \/ TaskTransform(t)
    \/ TaskLock(t)
    \/ TaskLoad(t)
    \/ TaskStoreUnlock(t)
    \/ TaskReturn(t)
    \/ TaskPanicDone(t)
    \/ TaskPanicExit(t)

HandlerStep == HandlerWait \/ HandlerSort \/ HandlerRespond

\* the order list: GET /orders
Next ==
    \/ HandleGetOrders
    \/ \E t \in Tasks : GoTask(t)
    \/ \E t \in Tasks : TaskStep(t)
    \/ HandlerStep
    \/ ClientStep

Spec == Init /\ [][Next]_vars

\* the order list against an Orderspace account with ten orders or more
NextPaging ==
    \/ HandleGetOrders
    \/ \E t \in Tasks : GoTask(t)
    \/ \E t \in Tasks : TaskStep(t)
    \/ HandlerStep
    \/ EnsureValidToken
    \/ TokenResponse
    \/ DataResponsePaging

SpecPaging == Init /\ [][NextPaging]_vars

\* single orders: GET /orders/{origin}/{id}
NextLookup ==
    \/ HandleGetOrder
    \/ LookupOrderspaceReturn
    \/ LookupWooReturn
    \/ ClientStep
    \/ Tick

SpecLookup == Init /\ [][NextLookup]_vars

\* one HTTP request after another through the handler chain
NextChain == ServeHTTP \/ CORS \/ RequestID \/ Logging \/ Mux

SpecChain == Init /\ [][NextChain]_vars

\* the Orderspace goroutines of two invocations served at the same time
NextOverlap ==
    \/ \E c \in Callers : OvEnter(c)
    \/ \E c \in Callers : OvEnsureValidToken(c)
    \/ \E c \in Callers : OvTokenResponse(c)
    \/ \E c \in Callers : OvStoreExpiry(c)
    \/ \E c \in Callers : OvSetHeader(c)
    \/ \E c \in Callers : OvDataResponse(c)
    \/ Tick

SpecOverlap == Init /\ [][NextOverlap]_vars

\* the options ListOrders is called with
FnListOptions ==
    {ListOptions(l, sa) : l \in 0..MaxOrders, sa \in {"", "os1"}}

\* the client and normalizer functions, one call in a behaviour
FnCalls ==
    {[fn |-> "makeRequest", arg |-> o] : o \in GetOutcomes \cup ListOutcomes}
    \cup {[fn |-> "ListOrders", arg |-> [options |-> op, response |-> o]] :
            op \in FnListOptions, o \in ListOutcomes}
    \cup {[fn |-> "WooListOrders", arg |-> r] : r \in WooGETResults}
    \cup {[fn |-> "FormatCurrency", arg |-> [amount |-> a, currency |-> c]] :
            a \in Amounts, c \in Currencies}
    \cup {[fn |-> "ConvertOrderspaceOrder", arg |-> o] : o \in OrderspaceRawOrders}
    \cup {[fn |-> "ConvertWooOrder", arg |-> o] : o \in WooRawOrders}

\* the value the function returns at instant t
FnResult(call, t) ==
    CASE call.fn = "makeRequest" -> makeRequestResult(call.arg, NoOptions)
      [] call.fn = "ListOrders" ->
            ListOrders(makeRequestResult(call.arg.response, call.arg.options))
      [] call.fn = "WooListOrders" -> WooListOrders(call.arg)
      [] call.fn = "FormatCurrency" ->
            [text |-> FormatCurrency(call.arg.amount, call.arg.currency)]
      [] call.fn = "ConvertOrderspaceOrder" -> ConvertOrderspaceOrder(call.arg, t)
      [] call.fn = "ConvertWooOrder" -> ConvertWooOrder(call.arg, t)

FnCall ==
    /\ fnPc = "idle"
    /\ \E call \in FnCalls : fnIn' = call
    /\ fnPc' = "running"
    /\ fnStart' = now
    /\ fnOut' = NoValue
    /\ UNCHANGED <<now, clientVars, callVars, taskVars, handlerVars, lookupVars,
                   reqVars, mwVars, ovVars>>

FnReturn ==
    /\ fnPc = "running"
    /\ fnOut' = FnResult(fnIn, now)
    /\ fnPc' = "returned"
    /\ UNCHANGED <<now, clientVars, callVars, taskVars, handlerVars, lookupVars,
                   fnIn, fnStart, reqVars, mwVars, ovVars>>

\* time passes before a call and while it runs
FnTick == fnPc \in {"idle", "running"} /\ Tick

NextFn == FnCall \/ FnReturn \/ FnTick

SpecFn == Init /\ [][NextFn]_vars

\* a call of fn has returned
Returned(fn) == fnPc = "returned" /\ fnIn.fn = fn

----------------------------------------------------------------------------
(* Properties of the order list *)

Other(t) == CHOOSE u \in Tasks : u # t

\* goroutine t has its (res, err) back from GetLast10Orders
Fetched(t) == taskPc[t] \notin {"none", "fetch", "await"}
FetchFailed(t) == Fetched(t) /\ res[t].err # ""
FetchSucceeded(t) == Fetched(t) /\ res[t].err = ""

Count(s, x) == Cardinality({i \in DOMAIN s : s[i] = x})
DateSeq(s) == [i \in DOMAIN s |-> s[i].SortDate]
NonIncreasing(d) == \A i \in 1..(Len(d) - 1) : d[i] >= d[i + 1]
FromOrigin(s, t) == SelectSeq(s, LAMBDA o : o.Origin = t)

\* the normalized orders of both goroutines, Orderspace's first
Merged == transformed[Orderspace] \o transformed[WooCommerce]

\* C1: when exactly one source's GetLast10Orders returns an error, the
\* failure is logged, the goroutine of that source does not panic and the
\* process does not crash, and the answer is exactly the other source's
\* normalized orders, sorted.
C1_OneSourceFailureTolerated ==
    \A t \in Tasks :
        (FetchFailed(t) /\ FetchSucceeded(Other(t))) =>
            /\ ~crashed
            /\ taskPc[t] \notin {"panicking", "dying"}
            /\ taskPc[t] # "got" => <<t, "fetching orders failed">> \in logs
            /\ hPc = "done" =>
                  /\ response.status = StatusOK
                  /\ Len(response.orders) = Len(transformed[Other(t)])
                  /\ \A o \in {response.orders[i] : i \in DOMAIN response.orders} :
                        o.Origin = Other(t)

\* C2: when both sources return N and M raw orders, the sorted list holds
\* exactly N+M orders, one normalized order per raw order, and no element
\* has a SortDate before that of its successor.
C2_AllOrdersSortedDescending ==
    (hPc \in {"respond", "done"} /\ \A t \in Tasks : FetchSucceeded(t)) =>
        /\ Len(orders) = Len(res[Orderspace].res.Orders) + Len(res[WooCommerce].res.Orders)
        /\ \A t \in Tasks :
              /\ Len(transformed[t]) = Len(res[t].res.Orders)
              /\ \A i \in DOMAIN transformed[t] :
                    /\ Count(orders, transformed[t][i]) = 1
                    /\ transformed[t][i].Origin = t
                    /\ transformed[t][i].ID = Convert(t, res[t].res.Orders[i], now).ID
        /\ NonIncreasing(DateSeq(orders))
        /\ hPc = "done" => response.orders = orders

\* the scenario of the specification: 01-03 and 01-01 from Orderspace,
\* 01-02 from WooCommerce, answered as 01-03, 01-02, 01-01
C2_Witness ==
    /\ hPc = "done"
    /\ \A t \in Tasks : FetchSucceeded(t)
    /\ Len(res[Orderspace].res.Orders) = 2
    /\ Len(res[WooCommerce].res.Orders) = 1
    /\ DateSeq(response.orders) = <<UnixDay(3), UnixDay(2), UnixDay(1)>>

\* C3: the handler sorts and answers only after both goroutines have made
\* all their appends; nothing is written to the response before that.
C3_BarrierJoin ==
    (hPc \in {"sort", "respond", "done"} \/ response.written) =>
        \A t \in Tasks :
            /\ taskPc[t] \in {"done", "dying"}
            /\ Len(FromOrigin(orders, t)) = Len(transformed[t])

C3_Witness ==
    /\ hPc = "done"
    /\ response.written
    /\ \A t \in Tasks : taskPc[t] = "done" /\ Len(transformed[t]) = MaxOrders

\* C4 as claimed: the answer is the same sequence of orders whatever the
\* order in which the goroutines appended.
C4_OutputIndependentOfInterleaving ==
    hPc = "done" => response.orders = SortSlice(Merged)

\* the SortDates of a sequence, largest first
RECURSIVE Descending(_)
Descending(d) ==
    IF Len(d) = 0 THEN <<>>
    ELSE LET m == CHOOSE i \in DOMAIN d : \A j \in DOMAIN d : d[i] >= d[j]
         IN <<d[m]>> \o Descending([k \in 1..(Len(d) - 1) |->
                                        IF k < m THEN d[k] ELSE d[k + 1]])

\* C4: for every interleaving the answer carries the same sequence of
\* SortDate values, the dates of the normalized orders in descending order;
\* orders of equal SortDate may come out in either order.
C4_DatesIndependentOfInterleaving ==
    hPc = "done" => DateSeq(response.orders) = Descending(DateSeq(Merged))

\* two orders of equal SortDate answered WooCommerce's first
C4_Witness ==
    /\ hPc = "done"
    /\ Len(response.orders) >= 2
    /\ response.orders # SortSlice(Merged)

\* C5: at most one goroutine is between mu.Lock() and mu.Unlock(), the
\* mutex is held exactly while one is, it is released when a goroutine has
\* left its loop, and each normalized order a goroutine has been through is
\* in the accumulator exactly once.
C5_AppendUnderMutex ==
    /\ Cardinality(inCS) <= 1
    /\ \A t \in Tasks : t \in inCS <=> taskPc[t] \in {"append", "store"}
    /\ \A t \in Tasks : t \in inCS <=> mu = t
    /\ hPc \in {"sort", "respond", "done"} => mu = ""
    /\ \A t \in Tasks :
          taskPc[t] \in {"lock", "append", "store", "return", "done"} =>
              /\ Len(FromOrigin(orders, t)) = idx[t] - 1
              /\ \A i \in 1..(idx[t] - 1) : Count(orders, transformed[t][i]) = 1

\* one goroutine is appending while the other waits in mu.Lock()
C5_Witness ==
    /\ taskPc[Orderspace] = "store"
    /\ taskPc[WooCommerce] = "lock"
    /\ idx[WooCommerce] = 2
    /\ Len(orders) >= 1

\* C10: during an invocation of handleGetOrders only the Orderspace
\* goroutine reads or writes accessToken and tokenExpiry.
C10_TokenCachePrivateToItsTask ==
    /\ tokenAccess \subseteq {Orderspace}
    /\ reqPc # "idle" => reqCaller = Orderspace /\ taskPc[Orderspace] = "await"

C10_Witness ==
    /\ tokenAccess = {Orderspace}
    /\ accessToken # ""
    /\ taskPc[WooCommerce] = "done"
    /\ hPc = "done"

----------------------------------------------------------------------------
(* Properties of the token cache *)

TokenTrips(tr) == Cardinality({i \in DOMAIN tr : tr[i] = "token"})
DataTrips(tr) == Cardinality({i \in DOMAIN tr : tr[i] = "data"})

\* C6: a call that finds the cached token expired makes exactly one token
\* round trip, and makes it before the data request; a call that finds the
\* cached token still valid makes none.
C6_OneRefreshWhenExpired ==
    /\ checkState = "expired" =>
          /\ TokenTrips(trace) = 1
          /\ trace[1] = "token"
          /\ DataTrips(trace) <= 1
    /\ checkState = "valid" => trace = <<"data">>

\* a call that found the token expired has refreshed it and has its answer
C6_Witness ==
    /\ checkState = "expired"
    /\ reqPc = "ret"
    /\ trace = <<"token", "data">>
    /\ reqRet.err = ""

\* C7: a failed token acquisition ends the call with an error and without a
\* data request; no data request carries an empty bearer token.
C7_NoRequestWithoutToken ==
    /\ reqRet = AuthFailed => ~sent.done /\ DataTrips(trace) = 0
    /\ sent.done => sent.bearer # ""

\* C8: NewClient makes no round trip and leaves the token absent; the first
\* request makes the token round trip; accessToken and tokenExpiry change
\* only in the token round trip of a request that found the token absent or
\* expired, so a valid token is kept from one request to the next.
C8_TokenLifecycle ==
    /\ [](calls = 0 => accessToken = "" /\ tokenTrips = 0 /\ ~sent.done)
    /\ []((calls = 1 /\ checkState # "none") =>
            checkState = "absent" /\ trace[1] = "token")
    /\ [][(accessToken' # accessToken \/ tokenExpiry' # tokenExpiry) =>
            /\ reqPc = "token_rt"
            /\ checkState \in {"absent", "expired"}
            /\ tokenTrips' = tokenTrips]_vars
    /\ [][tokenTrips' # tokenTrips =>
            TokenState(accessToken, tokenExpiry, now) # "valid" /\ reqPc = "auth"]_vars

\* the second request is served with the token the first one acquired
C8_Witness ==
    /\ calls = 2
    /\ tokenTrips = 1
    /\ checkState = "valid"
    /\ reqPc = "ret"
    /\ sent.bearer = "tok"

\* C9: a request at instant t reuses the token acquired at T with
\* expires_in E exactly when the token is present and t <= T + E - 30, and
\* refreshes it otherwise; no data request is sent after T + E.
C9_SafetyMargin ==
    /\ reqPc = "token_rt" =>
          accessToken = "" \/ checkedAt > tokIssue.T + tokIssue.E - SafetyMargin
    /\ (checkState # "none" /\ reqPc # "token_rt" /\ TokenTrips(trace) = 0) =>
          accessToken # "" /\ checkedAt <= tokIssue.T + tokIssue.E - SafetyMargin
    /\ sent.done => sent.at <= tokIssue.T + tokIssue.E

\* a token is reused some time after its acquisition, within the margin
C9_Witness ==
    /\ reqPc = "ret"
    /\ trace = <<"data">>
    /\ checkedAt > tokIssue.T
    /\ checkedAt <= tokIssue.T + tokIssue.E - SafetyMargin

----------------------------------------------------------------------------
(* Properties of the client and normalizer functions *)

\* the status is one of 200..299
Is2xx(status) == status >= 200 /\ status < 300

\* makeRequest returned an error of the given kind for the status, and no
\* Response
ErrorReturned(kind, status) ==
    /\ fnOut.resp.isNil
    /\ fnOut.err = kind
    /\ fnOut.code = status

\* C11: for every data response whose status is not 2xx,
\* makeRequest returns an error and no Response: the API Error with the
\* status when the body decodes as the structured error, the generic error
\* with status and raw body otherwise.
C11_Non2xxIsError ==
    (Returned("makeRequest") /\ fnIn.arg.kind = "http" /\ ~Is2xx(fnIn.arg.status)) =>
        IF fnIn.arg.body.shape = "object"
        THEN ErrorReturned("Orderspace API Error", fnIn.arg.status)
        ELSE ErrorReturned("HTTP", fnIn.arg.status)

\* C12: the key-auth (WooCommerce) client's ListOrders accepts both response
\* envelopes, the direct array and the object wrapping the array, and
\* reports a decode failure only when the body is neither.
C12_BothEnvelopesAccepted ==
    (Returned("WooListOrders") /\ fnIn.arg.err = "") =>
        /\ fnIn.arg.resp.Data.shape \in {"array", "wrapped"} =>
              /\ fnOut.err = ""
              /\ ~fnOut.res.isNil
              /\ fnOut.res.Orders = fnIn.arg.resp.Data.page
        /\ fnOut.err # "" => fnIn.arg.resp.Data.shape \notin {"array", "wrapped"}

----------------------------------------------------------------------------
(* Properties of the handlers *)

\* C13: for every combination of fetch outcomes of the two sources the list
\* request is answered 200 with the orders of the sources that succeeded;
\* a failed fetch neither panics its goroutine nor ends the process.
C13_ListAlwaysBestEffort ==
    /\ ~crashed
    /\ \A t \in Tasks : taskPc[t] \notin {"panicking", "dying"}
    /\ (hPc = "done" /\ response.body = "orders") =>
          /\ response.status = StatusOK
          /\ \A t \in Tasks :
                Len(FromOrigin(response.orders, t)) =
                    IF FetchSucceeded(t) THEN Len(res[t].res.Orders) ELSE 0

KnownOrigins == {"Orderspace", "WooCommerce"}

\* C14: a lookup whose origin is not one of the two known values is
\* answered 400 in the step it arrives, with no call of a source client, no
\* access to the token and no request on the network.
C14_UnknownOriginRejected ==
    /\ []((lPc # "idle" /\ lOrigin \notin KnownOrigins) =>
            /\ lPc = "done"
            /\ response = Answer(StatusBadRequest, "error")
            /\ lErr = NotCalled
            /\ reqPc = "idle"
            /\ tokenAccess = {})
    /\ [][(invocations' # invocations /\ lOrigin' \notin KnownOrigins) =>
            /\ calls' = calls
            /\ tokenTrips' = tokenTrips
            /\ ~sent'.done]_vars

\* an unknown origin was refused after an earlier lookup had used the client
C14_Witness ==
    /\ lPc = "done"
    /\ lOrigin = "Shopify"
    /\ response.status = StatusBadRequest
    /\ calls = 1

\* the id is a decimal integer
IsInteger(id) == id = "42"

\* the lookup is refused before the switch reaches a client
BadLookup ==
    \/ lOrigin \notin KnownOrigins
    \/ lOrigin = "WooCommerce" /\ ~IsInteger(lOrderID)

\* C15: an unknown or missing origin, or a non-integer id for the key-auth
\* source, is answered 400 without a GetOrder call; an error of GetOrder is
\* answered 500; the order is written, with 200, only after a GetOrder that
\* returned no error.
C15_LookupStatusMapping ==
    /\ (lPc # "idle" /\ BadLookup) =>
          /\ lPc = "done"
          /\ response.status = StatusBadRequest
          /\ lErr = NotCalled
    /\ (lPc = "done" /\ ~BadLookup) => lErr # NotCalled
    /\ (lPc = "done" /\ lErr \notin {NotCalled, ""}) =>
          /\ response.status = StatusInternalServerError
          /\ response.body = "error"
    /\ (lPc = "done" /\ (response.body = "order" \/ response.status = StatusOK)) =>
          /\ lErr = ""
          /\ response = Answer(StatusOK, "order")

\* a key-auth lookup with a non-integer id was refused with 400
C15_Witness ==
    /\ lPc = "done"
    /\ lOrigin = "WooCommerce"
    /\ lOrderID = "abc"
    /\ response = Answer(StatusBadRequest, "error")
    /\ lErr = NotCalled

----------------------------------------------------------------------------
(* Properties of the normalizer *)

\* a normalizer has returned an Order
Converted == Returned("ConvertOrderspaceOrder") \/ Returned("ConvertWooOrder")

\* the creation date of the raw order and the layout its normalizer parses
\* it with
RawCreated ==
    IF fnIn.fn = "ConvertOrderspaceOrder" THEN fnIn.arg.Created
    ELSE fnIn.arg.DateCreated
CreatedLayout ==
    IF fnIn.fn = "ConvertOrderspaceOrder" THEN OrderspaceLayout ELSE WooLayout

\* C16: a creation date that does not parse yields no error: SortDate is the
\* current time, no earlier than the start of the call and never the zero or
\* epoch instant, and OrderDate is the raw string; a date that parses yields
\* the parsed instant and the formatted date.
C16_DateFallback ==
    Converted =>
        LET p == ParseTime(CreatedLayout, RawCreated) IN
        IF p.ok
        THEN /\ fnOut.SortDate = p.t
             /\ fnOut.OrderDate = FormatDate(p.t)
        ELSE /\ fnOut.SortDate >= fnStart
             /\ fnOut.SortDate <= now
             /\ fnOut.SortDate # ZeroTime
             /\ fnOut.SortDate # 0
             /\ fnOut.OrderDate = RawCreated

\* an Orderspace order with an unparseable date got the instant of its
\* conversion, which is later than the start of the call
C16_Witness ==
    /\ Returned("ConvertOrderspaceOrder")
    /\ fnIn.arg.Created = "not-a-date"
    /\ fnOut.OrderDate = "not-a-date"
    /\ fnOut.SortDate > fnStart

\* the Origin a normalizer stamps
FixedOrigin ==
    IF fnIn.fn = "ConvertOrderspaceOrder" THEN "Orderspace" ELSE "WooCommerce"

\* C17 as stated: every Order a normalizer produces, for any raw order, has
\* a non-zero SortDate and the fixed Origin of its source.
C17_SortDateNeverZero ==
    Converted =>
        /\ fnOut.SortDate # ZeroTime
        /\ fnOut.Origin = FixedOrigin

\* C17: every Order a normalizer produces has the fixed Origin of its source,
\* and a non-zero SortDate unless the raw creation date is itself the zero
\* instant, January 1 of year 1 at 00:00:00.
C17_SortDateZeroOnlyFromSource ==
    Converted =>
        /\ fnOut.Origin = FixedOrigin
        /\ fnOut.SortDate = ZeroTime => RawCreated = CreatedLayout.zero

\* a WooCommerce order without a creation date came out with an instant
C17_Witness ==
    /\ Returned("ConvertWooOrder")
    /\ fnIn.arg.DateCreated = ""
    /\ fnOut.SortDate >= StartTime
    /\ fnOut.Origin = "WooCommerce"

\* the first non-empty text of a chain, empty when there is none
RECURSIVE FirstNonEmpty(_)
FirstNonEmpty(chain) ==
    IF chain = <<>> THEN <<>>
    ELSE IF Head(chain) # <<>> THEN Head(chain)
    ELSE FirstNonEmpty(Tail(chain))

\* the name fields of the raw order: company, contact, billing name, email
CompanyField ==
    IF fnIn.fn = "ConvertOrderspaceOrder" THEN Text(fnIn.arg.CompanyName)
    ELSE Text(fnIn.arg.Billing.Company)
ContactField ==
    IF fnIn.fn = "ConvertOrderspaceOrder"
    THEN Text(fnIn.arg.BillingAddress.ContactName) ELSE <<>>
BillingNameField ==
    IF fnIn.fn = "ConvertOrderspaceOrder" THEN <<>>
    ELSE IF fnIn.arg.Billing.FirstName # "" /\ fnIn.arg.Billing.LastName # ""
    THEN <<fnIn.arg.Billing.FirstName, " ", fnIn.arg.Billing.LastName>>
    ELSE Text(fnIn.arg.Billing.FirstName) \o Text(fnIn.arg.Billing.LastName)
EmailField ==
    IF fnIn.fn = "ConvertOrderspaceOrder" THEN Text(fnIn.arg.EmailAddresses.Orders)
    ELSE Text(fnIn.arg.Billing.Email)

\* C18 as stated: the customer of a normalized order is empty only if the
\* company name, the contact name, the billing name and the email of the raw
\* order are all absent.
C18_CustomerEmptyOnlyIfAllAbsent ==
    (Converted /\ fnOut.Customer = <<>>) =>
        /\ CompanyField = <<>>
        /\ ContactField = <<>>
        /\ BillingNameField = <<>>
        /\ EmailField = <<>>

\* C18: the customer of an Orderspace order is its company name, else the
\* contact name of its billing address; the customer of a WooCommerce order
\* is its billing first and last name, else its billing email; it is empty
\* only if the fields of its own chain are all empty.
C18_CustomerPerSourceChain ==
    Converted =>
        fnOut.Customer =
            IF fnIn.fn = "ConvertOrderspaceOrder"
            THEN FirstNonEmpty(<<CompanyField, ContactField>>)
            ELSE FirstNonEmpty(<<BillingNameField, EmailField>>)

\* an Orderspace order without a company name is shown under its contact
C18_Witness ==
    /\ Returned("ConvertOrderspaceOrder")
    /\ fnIn.arg.CompanyName = ""
    /\ fnIn.arg.BillingAddress.ContactName = "Ann Lee"
    /\ fnOut.Customer = <<"Ann Lee">>

\* the symbols of the known currency codes, and the two-decimal numerals
CurrencySymbol(code) ==
    CASE code \in {"USD", "usd"} -> "$"
      [] code = "GBP" -> "£"
      [] code = "EUR" -> "€"
      [] OTHER -> ""
TwoDecimals(amount) ==
    CASE amount = 0 -> "0.00"
      [] amount = 12500 -> "12.50"
      [] amount = 12345 -> "12.35"
      [] amount = 1999 -> "2.00"

\* C19: FormatCurrency renders the amount with two decimals, after "$" for
\* USD, the pound sign for GBP and the euro sign for EUR, and as
\* "<amount> <CODE>" without a symbol for any other code.
C19_FormatCurrency ==
    Returned("FormatCurrency") =>
        LET amount == fnIn.arg.amount
            code == fnIn.arg.currency
        IN
        /\ fnOut.text =
              IF CurrencySymbol(code) # ""
              THEN <<CurrencySymbol(code), TwoDecimals(amount)>>
              ELSE <<TwoDecimals(amount), " ">> \o Text(code)
        /\ (amount = 12500 /\ code = "USD") => fnOut.text = <<"$", "12.50">>
        /\ (amount = 12500 /\ code = "XYZ") => fnOut.text = <<"12.50", " ", "XYZ">>

\* 12.345 euros were rendered with the sign and two decimals
C19_Witness ==
    /\ Returned("FormatCurrency")
    /\ fnIn.arg = [amount |-> 12345, currency |-> "EUR"]
    /\ fnOut.text = <<"€", "12.35">>

\* C20: DeliverOn is never empty: "N/A" for every WooCommerce order and for
\* every Orderspace order without a delivery date; for an Orderspace order
\* with one, the formatted date, or the raw value when it does not parse.
C20_DeliverOnSentinel ==
    Converted =>
        /\ fnOut.DeliverOn # ""
        /\ fnIn.fn = "ConvertWooOrder" => fnOut.DeliverOn = "N/A"
        /\ fnIn.fn = "ConvertOrderspaceOrder" =>
              LET raw == fnIn.arg.DeliveryDate
                  d == ParseTime(DeliveryLayout, raw)
              IN fnOut.DeliverOn =
                    IF raw = "" THEN "N/A"
                    ELSE IF d.ok THEN FormatDate(d.t) ELSE raw

\* an Orderspace order without a delivery date shows the sentinel
C20_Witness ==
    /\ Returned("ConvertOrderspaceOrder")
    /\ fnIn.arg.DeliveryDate = ""
    /\ fnOut.DeliverOn = "N/A"

----------------------------------------------------------------------------
(* Properties of the list requests *)

\* the page size a recorded list request asks for: limit for Orderspace,
\* per_page for WooCommerce
RequestedSize(rq) ==
    IF rq.source = Orderspace THEN rq.options.Limit ELSE rq.options.PerPage

\* the handler has spawned both goroutines
BothSpawned == \A t \in Tasks : taskPc[t] # "none"

\* C21: one invocation spawns exactly two fetch goroutines, one per source;
\* each issues at most one list request, exactly one once it has called its
\* client, to its own source and for a page of 10; no further page is ever
\* requested, also when the returned page is full (HasMore true).
C21_OneFixedSizeRequestPerSource ==
    /\ wg <= Cardinality(Tasks)
    /\ hPc \in {"wait", "sort", "respond", "done"} => BothSpawned
    /\ \A t \in Tasks :
        /\ Len(requests[t]) <= 1
        /\ taskPc[t] \in {"none", "fetch"} => requests[t] = <<>>
        /\ taskPc[t] \notin {"none", "fetch"} =>
              /\ Len(requests[t]) = 1
              /\ requests[t][1].source = t
              /\ RequestedSize(requests[t][1]) = PageSize

\* the Orderspace page came back full, the handler has answered, and each
\* goroutine has issued its one request
C21_Witness ==
    /\ hPc = "done"
    /\ res[Orderspace].res.Pagination.HasMore
    /\ Len(res[Orderspace].res.Orders) = PageSize
    /\ \A t \in Tasks : Len(requests[t]) = 1

\* parameters that ask a source for an ordering of the page
SortParams == {"orderby", "order", "sort", "sort_by", "order_by"}

\* the request asks for the first page, sorted by creation date descending
FirstPageByCreationDescending(rq) ==
    IF rq.source = Orderspace
    THEN /\ rq.options.StartingAfter = ""
         /\ \E p \in rq.options.Params : p[1] \in SortParams
    ELSE /\ rq.options.Page = 1
         /\ <<"orderby", "date">> \in rq.options.Params
         /\ <<"order", "desc">> \in rq.options.Params

\* C22: the list request a recent-orders call issues asks for the first
\* page of the requested size with a creation-date (descending) sort.
C22_RecentOrdersRequestSorted ==
    \A t \in Tasks : \A i \in DOMAIN requests[t] :
        /\ RequestedSize(requests[t][i]) = PageSize
        /\ FirstPageByCreationDescending(requests[t][i])

----------------------------------------------------------------------------
(* Properties of the accumulator and of the answer *)

Elements(s) == {s[i] : i \in DOMAIN s}

\* the handler has just been entered: nothing spawned yet
JustEntered == hPc = "go" /\ \A t \in Tasks : taskPc[t] = "none"

BothEmpty == \A t \in Tasks : FetchSucceeded(t) /\ res[t].res.Orders = <<>>

\* C24: when both sources return no orders the handler answers normally:
\* status 200 and the empty JSON array, not null and not an error (a 500 is
\* left only for a failure to write the answer).
C24_EmptyListingIsEmptyArray ==
    (hPc = "done" /\ BothEmpty) =>
        /\ ~crashed
        /\ response.written
        /\ response.orders = <<>>
        /\ response.body # "error" =>
              /\ response.status = StatusOK
              /\ response.json = [kind |-> "array", ids |-> <<>>]

C24_Witness ==
    /\ hPc = "done"
    /\ BothEmpty
    /\ response.status = StatusOK
    /\ response.json = [kind |-> "array", ids |-> <<>>]

----------------------------------------------------------------------------
(* Properties of Client.ListOrders *)

\* C25: a successful list request with limit L > 0 returns the hint
\* HasMore = (orders in the page = L) with Limit and StartingAfter as
\* requested; without a limit HasMore is false.
C25_HasMoreIffPageFull ==
    (Returned("ListOrders") /\ fnOut.err = "") =>
        LET asked == fnIn.arg.options
            hint == fnOut.res.Pagination
        IN  /\ asked.Limit > 0 =>
                  /\ hint.HasMore = (Len(fnOut.res.Orders) = asked.Limit)
                  /\ hint.Limit = asked.Limit
                  /\ hint.StartingAfter = asked.StartingAfter
            /\ asked.Limit = 0 => ~hint.HasMore

\* the shapes a list body is expected in
ListShapes == {"array", "wrapped"}

\* the response the returned list call decoded, when it got one
Decoded ==
    IF fnIn.fn = "ListOrders"
    THEN makeRequestResult(fnIn.arg.response, fnIn.arg.options)
    ELSE fnIn.arg

\* C26: ListOrders of either client reports a decode error exactly when the
\* body of a successful response is in neither expected shape; such a body
\* never gives a successful result without orders.
C26_DecodeErrorIffNeitherShape ==
    ((Returned("ListOrders") \/ Returned("WooListOrders")) /\ Decoded.err = "") =>
        /\ fnOut.err \in {"", "failed to unmarshal orders"}
        /\ fnOut.err # "" <=> Decoded.resp.Data.shape \notin ListShapes

----------------------------------------------------------------------------
(* Properties of the token cache *)

\* both calls are acquiring a token at the same time
BothAcquiring == \A c \in Callers : ovPc[c] \in {"token_rt", "store_expiry"}

\* C27: when two invocations overlap and both find the token absent or
\* expired, the token fields are never written while the other call runs
\* unsynchronized, and the token is acquired once, not once per call.
C27_OverlapAcquiresOnce ==
    /\ ~ovRace
    /\ ~BothAcquiring
    /\ (\A c \in Callers : ovPc[c] = "done" /\ ovSaw[c].found = "absent") =>
            tokenTrips <= 1

\* the step in which getAccessToken returns an error / returns nil
AcquisitionFails == reqPc = "token_rt" /\ reqPc' = "ret"
AcquisitionSucceeds == reqPc = "token_rt" /\ reqPc' = "data_rt"

\* C28: a failed token acquisition, whatever the failure, leaves accessToken
\* and tokenExpiry as they were, so that the token is still wanting for the
\* next request; the two fields change only in a successful acquisition,
\* which assigns both.
C28_FailedAcquisitionKeepsCache ==
    [][ /\ AcquisitionFails =>
              /\ accessToken' = accessToken
              /\ tokenExpiry' = tokenExpiry
              /\ reqRet' = AuthFailed
              /\ NeedsToken(accessToken', tokenExpiry', now')
        /\ (accessToken' # accessToken \/ tokenExpiry' # tokenExpiry) =>
              AcquisitionSucceeds
        /\ AcquisitionSucceeds =>
              /\ accessToken' = sent'.bearer
              /\ tokenExpiry' = NewTokenExpiry(now, tokIssue'.E)
        /\ (NeedsToken(accessToken, tokenExpiry, now) /\ ~AcquisitionSucceeds) =>
              NeedsToken(accessToken', tokenExpiry', now')
      ]_vars

\* a refresh of an expired token has failed and the old token is still there
C28_Witness ==
    /\ reqPc = "ret"
    /\ reqRet = AuthFailed
    /\ checkState = "expired"
    /\ accessToken = "tok"
    /\ After(now, tokenExpiry)

\* the latest data request failed
LastDataFailed == lastData.answered /\ lastData.err # ""

\* C29: the answer to a data request, failed or not, leaves accessToken and
\* tokenExpiry as they were, and a request that follows a failed data request
\* while the token has not expired sends it again without a token round trip.
C29_FailedDataKeepsToken ==
    [][ /\ reqPc = "data_rt" =>
              /\ accessToken' = accessToken
              /\ tokenExpiry' = tokenExpiry
        /\ (/\ reqPc = "auth"
            /\ reqPc' # "auth"
            /\ LastDataFailed
            /\ ~After(now, tokenExpiry)) =>
              /\ reqPc' = "data_rt"
              /\ tokenTrips' = tokenTrips
              /\ trace' = <<"data">>
              /\ sent'.bearer = accessToken
              /\ accessToken # ""
      ]_vars

\* the first request was refused with 401, and the second is on its way
\* with the token the first had acquired
C29_Witness ==
    /\ lastData.answered
    /\ lastData.code = 401
    /\ calls = 2
    /\ tokenTrips = 1
    /\ reqPc = "data_rt"
    /\ trace = <<"data">>
    /\ sent.bearer = "tok"

----------------------------------------------------------------------------
(* Properties of the handler chain *)

Entered(layer) == \E i \in DOMAIN mwSeen : mwSeen[i] = layer

\* C30: an OPTIONS request is answered 200 by CORS and enters no other
\* layer; any other request has its request ID in the context before
\* Logging reads it, so Logging never logs with "unknown".
C30_PreflightStopsAtCORS ==
    /\ mwReq.Method = "OPTIONS" =>
          /\ ~Entered("RequestID") /\ ~Entered("Logging") /\ ~Entered("mux")
          /\ mwPc \in {"CORS", "done"}
          /\ mwPc = "done" => mwStatus = StatusOK /\ mwSeen = <<"CORS">>
    /\ mwLogged # "unknown"
    /\ (mwReq.Method # "OPTIONS" /\ Entered("Logging")) =>
          /\ mwSeen[1] = "CORS"
          /\ mwSeen[2] = "RequestID"
          /\ mwRid \in RequestIDs
          /\ mwReq.Path # "/health" => mwLogged = mwRid

\* a GET has passed the whole chain and was logged with its request ID
C30_Witness ==
    /\ mwPc = "done"
    /\ mwReq.Method = "GET"
    /\ mwSeen = <<"CORS", "RequestID", "Logging", "mux">>
    /\ mwLogged = mwRid
    /\ mwRid \in RequestIDs

====
